---- MODULE Spec2Model ----
(***************************************************************************)
(* The run loop of joist's Sim (js/Sim.js): the live animation loop with   *)
(* input batching, the active flag set through the SimIFrameAPI, the       *)
(* input-event recorder, the input-event playback loop with the request    *)
(* for its trace, exceptions of a screen's step, destroy(), what the       *)
(* constructor makes of its options and query parameters, the export and   *)
(* transmit functions of the recorded log, the two display strategies,     *)
(* the popups with their barrier, and the messages of the SimIFrameAPI     *)
(* (js/SimIFrameAPI.js).                                                   *)
(*                                                                         *)
(* Times are integer milliseconds as Date.now() returns them.  A dt is an  *)
(* integer count of 1/60000 s, so that the nominal first-frame dt of       *)
(* (1000/60)/1000 s and every whole-millisecond dt are exact.              *)
(***************************************************************************)
EXTENDS Integers, Sequences, FiniteSets, TLC

\* ---- bounds of the model
MaxScreens == 2
MaxTicks == 3
MaxTime == 1
MaxDim == 1
MaxInputs == 1
MaxFrames == 2
MaxCalls == 2
MaxListeners == 2
MaxPosts == 3
MaxFires == 2

\* ---- values of the program
NoTime == -1
Undefined == -1
SixtiethsPerMilli == 60
NominalElapsed == 1000
NoScreen == -2

VARIABLES
  options,          \* the options of the Sim (record, playback and fuzz with their query
                    \* parameters applied; showHomeScreen as the caller gave it)
  startup,          \* the rest of what the constructor is given: options.screenIndex,
                    \* options.screenDisplayStrategy and the query parameters
  screens,          \* screens.length
  pc,               \* "constructed", "live", "loading", "playing", "finished"
  showHomeScreen, screenIndex, active,
  currentScreen,    \* sim.currentScreen: the index of the screen, or NoScreen for null
  frameCounter,
  lastTime,         \* local of start(): time of the previous tick, or NoTime
  clock,            \* the last value Date.now() returned
  displaySize,      \* [width, height] of sim.display
  inputEventSize,   \* [width, height]: sim.inputEventWidth / inputEventHeight
  eventLog,         \* sim.display._input.eventLog
  batchedEvents,    \* sim.display._input.batchedEvents, each tagged with doomed
  inputEventLog,    \* sim.inputEventLog
  sent,             \* the entries handed to websocket.send, in order
  data,             \* the trace the event-log server holds for this sim
  index,            \* local of startInputEventPlayback: the index into data
  startTime,        \* local of startInputEventPlayback
  report,           \* the performance results written to the page, or NoReport
  tickLog,          \* history: what each tick of this page load did, in order
  doomedDelivered,  \* history: an event buffered before setActive(false) was fired
  liveInPlayback,   \* history: a live input event reached the scene of a playback page load
  inputs,           \* history: the number of events of the environment so far (input
                    \* events, resizes, exceptions of a screen's step, destroy)
  destroyed,        \* sim.destroyed
  rafPending,       \* the animationLoop callbacks requestAnimationFrame holds
  request,          \* the XMLHttpRequest of start(): "none", "pending", "loaded", "failed"
  afterDestroy,     \* history: the number of ticks begun since destroy()
  destroyedAt,      \* history: the pc at which destroy() was called, or "never"
  phases,           \* history: the states the event player went through, in order
  liveWhilePlaying, \* history: a live input event reached the scene between playback ticks
  outbox,           \* history: what the export and the transmit functions returned or sent
  run,              \* history: 1 for the first page load, 2 for a second one
  prev,             \* history: what the previous page load did
  view,             \* what the display strategy keeps: the children of sim.rootNode, the
                    \* nodes whose visible flag is set, and the local currentScreenNode
  barrierStack,     \* sim.barrierStack
  topLayer,         \* the popups that are children of sim.topLayer, in order
  barrierVisible,   \* sim.barrierRectangle.visible
  assertions,       \* whether the build has assertions enabled (assert && assert( ... ))
  modal,            \* history: the popups on display that were shown with isModal
  popupFailed,      \* history: the popups for which hidePopup threw an AssertionError
  fired,            \* history: the number of times the barrier's listener has fired
  stateListeners,   \* SimIFrameAPI: the sources registered with 'addSimStateListener'
  targets,          \* SimIFrameAPI: the sources it pushed into window.phetEvents.targets
  protocolVersion,  \* SimIFrameAPI: the module's protocolVersion object
  posted            \* history: the messages handed to postMessage, each with its target

vars == <<options, startup, screens, pc, showHomeScreen, screenIndex, currentScreen, active,
          outbox, frameCounter,
          lastTime, clock, displaySize, inputEventSize, eventLog, batchedEvents,
          inputEventLog, sent, data, index, startTime, report, tickLog,
          doomedDelivered, liveInPlayback, inputs, destroyed, rafPending, request,
          afterDestroy, destroyedAt, phases, liveWhilePlaying, run, prev,
          view, barrierStack, topLayer, barrierVisible, assertions, modal, popupFailed,
          fired, stateListeners, targets, protocolVersion, posted>>

config == <<options, startup, screens>>
player == <<data, index, startTime, report>>
lifetime == <<run, prev>>
scheduler == <<destroyed, rafPending, afterDestroy, destroyedAt>>
loader == <<request, phases>>
popups == <<barrierStack, topLayer, barrierVisible, assertions, modal, popupFailed, fired>>
listeners == <<stateListeners, targets>>
iframe == <<stateListeners, targets, protocolVersion, posted>>
selection == <<showHomeScreen, screenIndex, currentScreen, view>>
running == <<outbox, pc, active, frameCounter, lastTime, clock, displaySize, inputEventSize,
             eventLog, batchedEvents, inputEventLog, sent, data, index, startTime, report,
             tickLog, doomedDelivered, liveInPlayback, inputs, run, prev, destroyed,
             rafPending, afterDestroy, destroyedAt, request, phases, liveWhilePlaying>>

Dims == 0..MaxDim
Sizes == [width : Dims, height : Dims]
InitialSize == [width |-> MaxDim, height |-> MaxDim]

\* ---- input events, as scenery logs and dispatches them
Tap == [kind |-> "tap", a |-> 0, b |-> 0]
Home == [kind |-> "home", a |-> 0, b |-> 0]
Pick(i) == [kind |-> "pick", a |-> i, b |-> 0]
SetSize(w, h) == [kind |-> "setSize", a |-> w, b |-> h]

\* the pointer events a user can produce on a sim with n screens
UserEvents(n) == IF n > 1 THEN {Home} \cup {Pick(i) : i \in 0..(n - 1)} ELSE {Tap}

\* ---- Screen Selection State: the transitions the home screen and the navigation bar make
goHome(st) ==
  IF screens = 1 THEN st ELSE [st EXCEPT !.showHomeScreen = TRUE]

selectScreen(st, i) ==
  IF i >= 0 /\ i < screens
    THEN [st EXCEPT !.showHomeScreen = FALSE, !.screenIndex = i]
    ELSE st

ScreenOfIndex(home, i) == IF i >= 0 /\ i < screens THEN i ELSE Undefined

\* showHomeScreen ? null : screens[ screenIndex ]
CurrentScreen(home, i) ==
  IF home THEN NoScreen ELSE IF i >= 0 /\ i < screens THEN i ELSE Undefined

\* the multilink on showHomeScreen and screenIndex, which runs on every change of either
Linked(st) == [st EXCEPT !.currentScreen = CurrentScreen(st.showHomeScreen, st.screenIndex)]

\* ---- the display strategies: the nodes they show under sim.rootNode
HomeView == [node |-> "homeScreen.view", i |-> 0]
ScreenView(i) == [node |-> "screen.view", i |-> i]
NavigationBar == [node |-> "navigationBar", i |-> 0]

ViewNodes(n) ==
  {ScreenView(k) : k \in 0..(n - 1)} \cup {NavigationBar}
    \cup (IF n > 1 THEN {HomeView} ELSE {})

IsChild(children, node) == \E k \in 1..Len(children) : children[k] = node

\* the place of a child, counted from 1; 0 for indexOfChild's -1
IndexOfChild(children, node) ==
  IF IsChild(children, node)
    THEN CHOOSE k \in 1..Len(children) :
           children[k] = node /\ \A j \in 1..(k - 1) : children[j] # node
    ELSE 0

RemoveChild(children, node) ==
  LET at == IndexOfChild(children, node) IN
  [k \in 1..(Len(children) - 1) |-> IF k < at THEN children[k] ELSE children[k + 1]]

\* insertChild( at, node ), the index `at` counted from 0
InsertChild(children, at, node) ==
  SubSeq(children, 1, at) \o <<node>> \o SubSeq(children, at + 1, Len(children))

\* the views of screens 0..(n - 1), in order
RECURSIVE ScreenViews(_)
ScreenViews(n) == IF n = 0 THEN <<>> ELSE Append(ScreenViews(n - 1), ScreenView(n - 1))

\* 'setVisible': the multilink on screenIndex and showHomeScreen
VisibleLink(v, n, i, home) ==
  [v EXCEPT !.visible =
     (IF n > 1 /\ home THEN {HomeView} ELSE {})
       \cup {ScreenView(k) : k \in {j \in 0..(n - 1) : ~home /\ i = j}}
       \cup (IF ~home THEN {NavigationBar} ELSE {})]

ScreenIndexLinkWithoutSwap(v, i) == [v EXCEPT !.currentScreenNode = i]

\* 'setChildren': the listener of screenIndexProperty
ScreenIndexLink(v, i) ==
  LET old == v.currentScreenNode
      oldIndex == IF old = Undefined THEN 0 ELSE IndexOfChild(v.rootNode, ScreenView(old))
  IN [v EXCEPT !.rootNode =
                 IF oldIndex > 0
                   THEN InsertChild(RemoveChild(@, ScreenView(old)), oldIndex - 1,
                                    ScreenView(i))
                   ELSE @,
               !.currentScreenNode = i]

\* 'setChildren': the listener of showHomeScreenProperty
ShowHomeScreenLink(v, home) ==
  LET current == ScreenView(v.currentScreenNode) IN
  IF home
    THEN LET a == IF IsChild(v.rootNode, current)
                    THEN RemoveChild(v.rootNode, current) ELSE v.rootNode
             idx == IF IsChild(a, NavigationBar)
                      THEN IndexOfChild(a, NavigationBar) - 1 ELSE 0
             b == IF IsChild(a, NavigationBar) THEN RemoveChild(a, NavigationBar) ELSE a
         IN [v EXCEPT !.rootNode = InsertChild(b, idx, HomeView)]
    ELSE LET shown == IsChild(v.rootNode, HomeView)
             idx == IF shown THEN IndexOfChild(v.rootNode, HomeView) - 1 ELSE 0
             a == IF shown THEN RemoveChild(v.rootNode, HomeView) ELSE v.rootNode
         IN [v EXCEPT !.rootNode =
                        InsertChild(InsertChild(a, idx, current), idx + 1, NavigationBar)]

\* what the listeners of the strategy make of the view when the two properties go from
\* `before` to `after`: a listener runs when its property changed, screenIndex first
Display(strategy, v, before, after) ==
  IF strategy = "setVisible"
    THEN VisibleLink(v, screens, after.screenIndex, after.showHomeScreen)
  ELSE IF strategy = "setChildren"
    THEN LET a == IF after.screenIndex # before.screenIndex
                    THEN ScreenIndexLink(v, after.screenIndex) ELSE v
         IN IF after.showHomeScreen # before.showHomeScreen
              THEN ShowHomeScreenLink(a, after.showHomeScreen) ELSE a
  ELSE v

\* the view no strategy has touched: nothing under sim.rootNode, every node visible
NoView(n) == [rootNode |-> <<>>, visible |-> ViewNodes(n), currentScreenNode |-> Undefined]

\* the view the constructor leaves: each link runs once when it is made
InitialView(n, home, i, strategy) ==
  IF strategy = "setVisible"
    THEN VisibleLink([NoView(n) EXCEPT
                        !.rootNode = (IF n > 1 THEN <<HomeView>> ELSE <<>>)
                                       \o ScreenViews(n) \o <<NavigationBar>>],
                     n, i, home)
  ELSE IF strategy = "setChildren" /\ i < n
    THEN ShowHomeScreenLink(ScreenIndexLink(NoView(n), i), home)
  ELSE NoView(n)

\* the nodes of the strategy that are on display
Displayed(v) == {v.rootNode[k] : k \in 1..Len(v.rootNode)} \cap v.visible

\* a change of showHomeScreen or screenIndex, with every listener it runs
Changed(st, next) ==
  [Linked(next) EXCEPT !.view = Display(startup.screenDisplayStrategy, st.view, st, next)]

\* one event reaching the scene
DispatchOne(st, e) ==
  CASE e.kind = "home" -> Changed(st, goHome(st))
    [] e.kind = "pick" -> Changed(st, selectScreen(st, e.a))
    [] e.kind = "setSize" -> [st EXCEPT !.size = [width |-> e.a, height |-> e.b]]
    [] OTHER -> st

RECURSIVE DispatchAll(_, _)
DispatchAll(st, evs) ==
  IF evs = <<>> THEN st ELSE DispatchAll(DispatchOne(st, Head(evs)), Tail(evs))

Scene == [showHomeScreen |-> showHomeScreen, screenIndex |-> screenIndex,
          currentScreen |-> currentScreen, size |-> displaySize, view |-> view]

RECURSIVE Untag(_)
Untag(batch) ==
  IF batch = <<>> THEN <<>> ELSE <<Head(batch).ev>> \o Untag(Tail(batch))

AnyDoomed(batch) == \E i \in 1..Len(batch) : batch[i].doomed

\* scenery logs an event when it handles it, if logEvents was set
Logged(evs) == IF options.recordInputEventLog THEN evs ELSE <<>>

\* ---- the wire format of a trace
\* JavaScript truthiness of a number that may be undefined
Truthy(x) == x # Undefined /\ x # 0

ExportItem(item) ==
  [dt |-> item.dt, events |-> item.events,
   width |-> IF Truthy(item.width) THEN item.width ELSE Undefined,
   height |-> IF Truthy(item.height) THEN item.height ELSE Undefined,
   id |-> item.id]

getRecordedInputEventLogString(log) == [i \in 1..Len(log) |-> ExportItem(log[i])]

\* ---- the traces the event-log server may hold
Frame(dt, events, width, height) ==
  [dt |-> dt, events |-> events, width |-> width, height |-> height, id |-> 0]

FrameChoices(n) ==
  {Frame(0, <<>>, Undefined, Undefined), Frame(NominalElapsed, <<>>, Undefined, Undefined)}
    \cup {Frame(NominalElapsed, <<e>>, Undefined, Undefined) : e \in UserEvents(n)}
    \cup {Frame(NominalElapsed, <<>>, s.width, s.height) : s \in Sizes \ {InitialSize}}

Numbered(frames) == [i \in 1..Len(frames) |-> [frames[i] EXCEPT !.id = i]]

Traces(n) ==
  {Numbered(t) : t \in UNION {[1..k -> FrameChoices(n)] : k \in 0..MaxFrames}}

NoSize == [width |-> Undefined, height |-> Undefined]
\* modelStep of a tick: the dt given to model.step, or NoStep
NoStep == Undefined
NoReport == [elapsedTime |-> NoTime, frames |-> 0, length |-> 0]
\* per tick, the dt given to model.step (or NoStep) and the events injected
Steps(ticks) ==
  [i \in 1..Len(ticks) |-> [modelStep |-> ticks[i].modelStep, fired |-> ticks[i].fired]]

NoPrev == [mode |-> "none", steps |-> <<>>, clean |-> TRUE, elapsedTime |-> NoTime]

\* ---- the Sim constructor
Strategies == {"setVisible", "setChildren", "other"}

\* what a query parameter holds when the URL does not have it
Absent == "absent"

DefaultStartup ==
  [screenIndex |-> 0, screenDisplayStrategy |-> "setVisible",
   queryShowHomeScreen |-> Absent]

ShowHomeScreenAsOption(n, option, query) == option

\* the initial showHomeScreen: the option, but false for a single screen; the query
\* parameter is read after the property was made and changes options.showHomeScreen only
InitialShowHomeScreen(n, option, query) == IF n = 1 THEN FALSE ELSE option

\* the initial screenIndex: options.screenIndex || 0; no query parameter is read for it
InitialScreenIndex(option) == IF Truthy(option) THEN option ELSE 0

AnyStrategy(strategy) == TRUE

\* the strategies the constructor accepts
ValidStrategy(strategy) == strategy \in {"setVisible", "setChildren"}

\* whether the constructor returns: it throws on an unknown strategy, on
\* screens[ screenIndex ].view of a missing screen under 'setChildren', and in
\* updateBackground when neither a current screen nor a home screen exists
Constructs(n, home, i, strategy) ==
  /\ ValidStrategy(strategy)
  /\ strategy = "setChildren" => i < n
  /\ (~home /\ i >= n) => n > 1

Launched(n, opts, given) ==
  LET home == InitialShowHomeScreen(n, opts.showHomeScreen, given.queryShowHomeScreen)
      i == InitialScreenIndex(given.screenIndex)
  IN [showHomeScreen |-> home, screenIndex |-> i,
      currentScreen |-> CurrentScreen(home, i),
      view |-> InitialView(n, home, i, given.screenDisplayStrategy),
      pc |-> IF Constructs(n, home, i, given.screenDisplayStrategy)
               THEN "constructed" ELSE "failed"]

BarrierVisibleWhenStacked(numBarriers) == numBarriers > 1

\* the link on barrierStack.lengthProperty: barrierRectangle.visible = numBarriers > 0
BarrierVisible(numBarriers) == numBarriers > 0

\* ---- SimIFrameAPI: the messages it sends
\* var protocolVersion = {protocolVersion: '0.0.1'}
InitialProtocolVersion == [protocolVersion |-> "0.0.1"]

\* _.extend( object, message ): the fields of message are assigned to object, which
\* keeps every other field it has
Extend(object, message) ==
  [f \in DOMAIN object \cup DOMAIN message |->
     IF f \in DOMAIN message THEN message[f] ELSE object[f]]

\* addProtocol( message ): the module's protocolVersion object itself, extended
addProtocol(object, message) == Extend(object, message)

\* send( target, message ) for each of `sources` in turn, from the object `object`:
\* what postMessage is given
RECURSIVE SendAll(_, _, _)
SendAll(object, sources, message) ==
  IF sources = <<>> THEN <<>>
  ELSE <<[target |-> Head(sources), message |-> addProtocol(object, message)]>>
         \o SendAll(addProtocol(object, message), Tail(sources), message)

\* the protocolVersion object after those sends
Shared(object, sources, message) ==
  IF sources = <<>> THEN object ELSE addProtocol(object, message)

\* the listener of 'frameCompleted' sends when sim.active and there are state listeners
StreamsState(isActive, registered) == isActive /\ Len(registered) > 0

\* the state of the sim at the end of a tick, as sim.getState() returns it
State(counter) == counter

\* the state the constructor leaves, for the startup it was given
Constructed ==
  /\ screens \in 1..MaxScreens
  /\ options \in [showHomeScreen : BOOLEAN, recordInputEventLog : BOOLEAN,
                  playbackInputEventLog : BOOLEAN, batchEvents : BOOLEAN,
                  fuzzMouse : BOOLEAN]
  /\ options.playbackInputEventLog => ~options.fuzzMouse
  /\ pc = Launched(screens, options, startup).pc
  /\ showHomeScreen = Launched(screens, options, startup).showHomeScreen
  /\ screenIndex = Launched(screens, options, startup).screenIndex
  /\ currentScreen = Launched(screens, options, startup).currentScreen
  /\ outbox = <<>>
  /\ active = TRUE
  /\ frameCounter = 0
  /\ lastTime = NoTime
  /\ clock = 0
  /\ displaySize = InitialSize
  /\ inputEventSize = [width |-> Undefined, height |-> Undefined]
  /\ eventLog = <<SetSize(InitialSize.width, InitialSize.height)>>
  /\ batchedEvents = <<>>
  /\ inputEventLog = <<>>
  /\ sent = <<>>
  /\ data \in (IF options.playbackInputEventLog THEN Traces(screens) ELSE {<<>>})
  /\ index = 0
  /\ startTime = NoTime
  /\ report = NoReport
  /\ tickLog = <<>>
  /\ doomedDelivered = FALSE
  /\ liveInPlayback = FALSE
  /\ inputs = 0
  /\ destroyed = FALSE
  /\ rafPending = 0
  /\ request = "none"
  /\ afterDestroy = 0
  /\ destroyedAt = "never"
  /\ phases = <<"idle">>
  /\ liveWhilePlaying = FALSE
  /\ run = 1
  /\ prev = NoPrev
  /\ view = Launched(screens, options, startup).view
  /\ barrierStack = <<>>
  /\ topLayer = <<>>
  /\ barrierVisible = BarrierVisible(0)
  /\ assertions \in BOOLEAN
  /\ modal = {}
  /\ popupFailed = {}
  /\ fired = 0
  /\ stateListeners = <<>>
  /\ targets = <<>>
  /\ protocolVersion = InitialProtocolVersion
  /\ posted = <<>>

\* a production build (no assertions) given the default startup
Init ==
  /\ startup = DefaultStartup
  /\ Constructed
  /\ ~assertions

\* ---- Clock/Scheduler: elapsed time of a tick, in sixtieths of a millisecond
ElapsedTime(time, previous) ==
  IF previous = NoTime THEN NominalElapsed ELSE (time - previous) * SixtiethsPerMilli

NextLastTimeWhenActive(time, isActive) == IF isActive THEN time ELSE lastTime

\* lastTime = time, on every pass
NextLastTime(time, isActive) == time

\* ---- Event Recorder: the entry of one tick
SizeDiffersInBoth(recorded, size) ==
  recorded.width # size.width /\ recorded.height # size.height

SizeDiffers(recorded, size) ==
  recorded.width # size.width \/ recorded.height # size.height

EntryWithoutEvents(dt, events, id, size, changed) ==
  [dt |-> dt, events |-> <<>>, id |-> id,
   width |-> IF changed THEN size.width ELSE Undefined,
   height |-> IF changed THEN size.height ELSE Undefined]

\* the entry of the record branch: dt, events (the display's event log), id, and the
\* size when it differs from the last one recorded
Entry(dt, events, id, size, changed) ==
  [dt |-> dt, events |-> events, id |-> id,
   width |-> IF changed THEN size.width ELSE Undefined,
   height |-> IF changed THEN size.height ELSE Undefined]

\* what the record branch adds to sim.inputEventLog
Recorded(log, entry) == log

StepsModelAlways(dt) == TRUE

\* the guard of the model step: screen.model.step && dt
StepsModel(dt) == dt # 0

\* the guard of the stepping block: sim.active
StepsWhen(isActive) == isActive

\* the frameCounter after a pass that would leave it for the end of the pass
FrameCounterAtEnd(counter, thrown) == IF thrown = "none" THEN counter + 1 ELSE counter

\* sim.frameCounter++, before anything of the pass can throw
NextFrameCounter(counter, thrown) == counter + 1

LiveRearmsAlways(isDestroyed) == TRUE

\* the guard of the live loop's requestAnimationFrame: !sim.destroyed
LiveRearms(isDestroyed) == ~isDestroyed

ArmedAtEnd(rearms, thrown) == rearms /\ thrown = "none"

\* whether a pass has called requestAnimationFrame when it ends: both loops make the
\* call before they fire events and step, so an exception of a step comes after it
Armed(rearms, thrown) == rearms

RequestsTwice(armed) == IF armed THEN 2 ELSE 0

\* the callbacks a pass hands to requestAnimationFrame: one call, one callback
Requests(armed) == IF armed THEN 1 ELSE 0

\* the steps of a screen that can throw on a pass: "model" and "view" are the
\* exceptions of screen.model.step and screen.view.step; "screen" is the TypeError of
\* reading screen.model when sim.screens[ sim.screenIndex ] is undefined
Throws(steps, stepsModel, i) ==
  IF steps /\ ~(i >= 0 /\ i < screens) THEN {"screen"}
  ELSE {"none"} \cup (IF steps /\ stepsModel THEN {"model"} ELSE {})
                \cup (IF steps THEN {"view"} ELSE {})

RecordAfterDisplay(recording) ==
  <<"updateDisplay">> \o (IF recording THEN <<"record">> ELSE <<>>) \o <<"frameCompleted">>

\* the end of a pass of the live loop: the record branch, updateDisplay, 'frameCompleted'
Ending(recording) ==
  (IF recording THEN <<"record">> ELSE <<>>) \o <<"updateDisplay", "frameCompleted">>

\* what a pass of the live loop does, in the order of the code; the step that throws
\* is the last one of its pass
LiveSteps(fuzzing, batching, isActive, onScreen, stepsModel, recording, rearms, thrown) ==
  <<"frameStarted", "frameCounter">>
    \o (IF rearms THEN <<"requestAnimationFrame">> ELSE <<>>)
    \o (IF fuzzing THEN <<"fuzzMouseEvents">>
        ELSE IF batching /\ isActive THEN <<"fireBatchedEvents">>
        ELSE IF batching THEN <<"clearBatchedEvents">>
        ELSE <<>>)
    \o <<"dt">>
    \o (IF thrown = "screen" THEN <<>>
        ELSE (IF onScreen /\ stepsModel THEN <<"model.step">> ELSE <<>>)
          \o (IF thrown = "model" THEN <<>>
              ELSE (IF onScreen THEN <<"view.step">> ELSE <<>>)
                \o (IF thrown = "view" THEN <<>>
                    ELSE (IF isActive THEN <<"Timer.step", "TWEEN.update">> ELSE <<>>)
                      \o Ending(recording))))

\* ---- one pass of the live animationLoop
\*   callback: the pass is a requestAnimationFrame callback (not the call in start());
\*   time: Date.now() at the dt computation (the entry's diagnostic timestamp,
\*   a second Date.now(), is not modelled: nothing reads it);
\*   fuzz: the events display.fuzzMouseEvents synthesizes;
\*   thrown: the step of the screen that throws and ends the pass, or "none"
LiveTick(callback, time, fuzz, thrown) ==
  LET batching == ~options.fuzzMouse /\ options.batchEvents
      fires == IF options.fuzzMouse THEN fuzz
               ELSE IF batching /\ active THEN Untag(batchedEvents)
               ELSE <<>>
      scene == DispatchAll(Scene, fires)
      log == eventLog \o Logged(fires)
      dt == ElapsedTime(time, lastTime)
      onScreen == StepsWhen(active) /\ ~scene.showHomeScreen
      counter == NextFrameCounter(frameCounter, thrown)
      changed == SizeDiffers(inputEventSize, scene.size)
      entry == Entry(dt, log, counter, scene.size, changed)
      completes == thrown = "none"
  IN
  /\ thrown \in Throws(onScreen, StepsModel(dt), scene.screenIndex)
  /\ frameCounter' = counter
  /\ rafPending' = (rafPending - (IF callback THEN 1 ELSE 0))
                     + Requests(Armed(LiveRearms(destroyed), thrown))
  /\ afterDestroy' = IF destroyed THEN afterDestroy + 1 ELSE afterDestroy
  /\ batchedEvents' = IF batching THEN <<>> ELSE batchedEvents
  /\ doomedDelivered' = (doomedDelivered \/ (batching /\ active /\ AnyDoomed(batchedEvents)))
  /\ showHomeScreen' = scene.showHomeScreen
  /\ screenIndex' = scene.screenIndex
  /\ currentScreen' = scene.currentScreen
  /\ displaySize' = scene.size
  /\ view' = scene.view
  /\ LET receivers == IF completes /\ StreamsState(active, stateListeners)
                        THEN stateListeners ELSE <<>>
         message == [command |-> "addState", state |-> State(counter)]
     IN /\ posted' = posted \o SendAll(protocolVersion, receivers, message)
        /\ protocolVersion' = Shared(protocolVersion, receivers, message)
  /\ lastTime' = NextLastTime(time, active)
  /\ clock' = time
  /\ IF options.recordInputEventLog /\ completes
       THEN /\ sent' = Append(sent, entry)
            /\ inputEventLog' = Recorded(inputEventLog, entry)
            /\ inputEventSize' = IF changed THEN scene.size ELSE inputEventSize
            /\ eventLog' = <<>>
       ELSE /\ UNCHANGED <<sent, inputEventLog, inputEventSize>>
            /\ eventLog' = log
  /\ tickLog' = Append(tickLog,
        [mode |-> "live", id |-> counter, time |-> time, dt |-> dt,
         active |-> active, home |-> scene.showHomeScreen, size |-> scene.size,
         fired |-> fires,
         modelStep |-> IF onScreen /\ StepsModel(dt) /\ thrown # "screen" THEN dt ELSE NoStep,
         viewStep |-> onScreen /\ thrown \notin {"model", "screen"},
         timerStep |-> StepsWhen(active) /\ completes,
         tweenUpdate |-> StepsWhen(active) /\ completes,
         display |-> completes,
         order |-> LiveSteps(options.fuzzMouse, batching, StepsWhen(active), onScreen,
                             StepsModel(dt), options.recordInputEventLog,
                             LiveRearms(destroyed), thrown),
         thrown |-> thrown, applied |-> NoSize])
  /\ inputs' = inputs + Len(fuzz) + (IF thrown \in {"model", "view"} THEN 1 ELSE 0)
  /\ inputs' <= MaxInputs
  /\ UNCHANGED <<config, popups, listeners, outbox, active, player, liveInPlayback, lifetime,
                 destroyed, destroyedAt, loader, liveWhilePlaying>>

FuzzChoices ==
  {<<>>} \cup (IF inputs < MaxInputs THEN {<<e>> : e \in UserEvents(screens)} ELSE {})

Outcomes == {"none", "model", "view", "screen"}

RunsPlaybackUnlessRecording(opts) ==
  opts.playbackInputEventLog /\ ~opts.recordInputEventLog

\* the branch start() takes: if ( this.options.playbackInputEventLog )
RunsPlayback(opts) == opts.playbackInputEventLog

\* sim.start() without playback: the first pass runs inside start()
Start ==
  /\ pc = "constructed"
  /\ ~RunsPlayback(options)
  /\ pc' = "live"
  /\ \E time \in clock..MaxTime, thrown \in Outcomes :
       \E fuzz \in (IF options.fuzzMouse THEN FuzzChoices ELSE {<<>>}) :
         LiveTick(FALSE, time, fuzz, thrown)

\* the requestAnimationFrame callback of the live loop
AnimationFrame ==
  /\ pc = "live"
  /\ rafPending > 0
  /\ frameCounter < MaxTicks
  /\ pc' = pc
  /\ \E time \in clock..MaxTime, thrown \in Outcomes :
       \E fuzz \in (IF options.fuzzMouse THEN FuzzChoices ELSE {<<>>}) :
         LiveTick(TRUE, time, fuzz, thrown)

\* ---- Event Player
PlaybackDtFromClock(frame, time) == ElapsedTime(time, startTime)

\* the dt the playback loop gives to model.step for a frame
PlaybackDt(frame, time) == frame.dt

\* whether the playback loop steps the model on a frame
PlaybackSteps(frame, home, isActive) == ~home

PlaybackRearmsAlways(done, isDestroyed) == TRUE
PlaybackRearmsNever(done, isDestroyed) == FALSE

\* whether a pass of the playback loop calls requestAnimationFrame: it returns before
\* the call when the frame is undefined, and never reads sim.destroyed
PlaybackRearms(done, isDestroyed) == ~done

FpsOfPasses(length, passes, elapsed) == [num |-> passes * 1000, den |-> elapsed]

\* fps = data.length / ( elapsedTime / 1000 ), as the exact fraction num / den
Fps(length, passes, elapsed) == [num |-> length * 1000, den |-> elapsed]

\* the average time per frame of the report: elapsedTime / index, as num / den
Average(length, passes, elapsed) == [num |-> elapsed, den |-> passes]

\* the step that can throw on a pass of the playback loop: model.step, or the read of
\* .model when sim.screens[ sim.screenIndex ] is undefined
PlaybackThrows(steps, i) ==
  IF steps /\ ~(i >= 0 /\ i < screens) THEN {"screen"}
  ELSE {"none"} \cup (IF steps THEN {"model"} ELSE {})

\* one pass of the playback animationLoop, from the scene and the event log `scene0`,
\* `log0`, with `start` the startTime and `time` what Date.now() returns at the end;
\* `callback`: the pass is a requestAnimationFrame callback (not the first call);
\* `applied`: the size sim.resize was given just before the pass, or NoSize
PlaybackPass(callback, scene0, log0, start, time, applied, entered, thrown) ==
  LET done == index >= Len(data) IN
  /\ index' = index + 1
  /\ inputs' = inputs + (IF thrown = "none" THEN 0 ELSE 1)
  /\ inputs' <= MaxInputs
  /\ startTime' = start
  /\ rafPending' = (rafPending - (IF callback THEN 1 ELSE 0))
                     + Requests(Armed(PlaybackRearms(done, destroyed), thrown))
  /\ afterDestroy' = IF destroyed THEN afterDestroy + 1 ELSE afterDestroy
  /\ IF done
       THEN /\ thrown = "none"
            /\ report' = [elapsedTime |-> time - start, frames |-> index + 1,
                          length |-> Len(data),
                          fps |-> Fps(Len(data), index + 1, time - start),
                          average |-> Average(Len(data), index + 1, time - start)]
            /\ pc' = "finished"
            /\ phases' = entered \o <<"finished">>
            /\ clock' = time
            /\ showHomeScreen' = scene0.showHomeScreen
            /\ screenIndex' = scene0.screenIndex
            /\ currentScreen' = scene0.currentScreen
            /\ displaySize' = scene0.size
            /\ view' = scene0.view
            /\ eventLog' = log0
            /\ UNCHANGED tickLog
       ELSE LET frame == data[index + 1]
                scene == DispatchAll(scene0, frame.events)
                steps == PlaybackSteps(frame, scene.showHomeScreen, active)
            IN
            /\ thrown \in PlaybackThrows(steps, scene.screenIndex)
            /\ report' = report
            /\ pc' = "playing"
            /\ phases' = entered
            /\ clock' = start
            /\ showHomeScreen' = scene.showHomeScreen
            /\ screenIndex' = scene.screenIndex
            /\ currentScreen' = scene.currentScreen
            /\ displaySize' = scene.size
            /\ view' = scene.view
            /\ eventLog' = log0 \o Logged(frame.events)
            /\ tickLog' = Append(tickLog,
                 [mode |-> "playback", id |-> index + 1, time |-> NoTime,
                  dt |-> frame.dt, active |-> active,
                  home |-> scene.showHomeScreen, size |-> scene.size,
                  fired |-> frame.events,
                  modelStep |-> IF steps /\ thrown # "screen"
                                  THEN PlaybackDt(frame, time) ELSE NoStep,
                  viewStep |-> FALSE, timerStep |-> FALSE,
                  tweenUpdate |-> thrown = "none",
                  display |-> thrown = "none", thrown |-> thrown, applied |-> applied])
  /\ UNCHANGED <<config, popups, iframe, outbox, active, frameCounter, lastTime, inputEventSize, batchedEvents,
                 inputEventLog, sent, data, doomedDelivered, liveInPlayback,
                 lifetime, destroyed, destroyedAt, liveWhilePlaying>>

\* sim.start() with playback: the trace is requested
StartPlayback ==
  /\ pc = "constructed"
  /\ RunsPlayback(options)
  /\ pc' = "loading"
  /\ request' = "pending"
  /\ phases' = Append(phases, "loading")
  /\ UNCHANGED <<config, popups, iframe, view, outbox, showHomeScreen, screenIndex, currentScreen, active, frameCounter,
                 lastTime, clock,
                 displaySize, inputEventSize, eventLog, batchedEvents, inputEventLog, sent,
                 player, tickLog, doomedDelivered, liveInPlayback, inputs,
                 lifetime, scheduler, liveWhilePlaying>>

\* request.onload: startInputEventPlayback( data ), whose first pass runs at once
OnLoad ==
  /\ pc = "loading"
  /\ request = "pending"
  /\ request' = "loaded"
  /\ LET resizes == Len(data) > 0 /\ Truthy(data[1].width)
         size == IF resizes THEN [width |-> data[1].width, height |-> data[1].height]
                 ELSE displaySize
         log == IF resizes THEN Append(eventLog, SetSize(size.width, size.height))
                ELSE eventLog
     IN \E start \in clock..MaxTime, thrown \in Outcomes : \E time \in start..MaxTime :
          PlaybackPass(FALSE, [Scene EXCEPT !.size = size], log, start, time,
                       IF resizes THEN size ELSE NoSize, Append(phases, "playing"), thrown)

\* the request fails (the server is down, the connection drops): start() set no
\* onerror handler, nothing of the sim runs
LoadFails ==
  /\ pc = "loading"
  /\ request = "pending"
  /\ request' = "failed"
  /\ UNCHANGED <<config, popups, iframe, view, outbox, pc, showHomeScreen, screenIndex, currentScreen, active, frameCounter,
                 lastTime,
                 clock, displaySize, inputEventSize, eventLog, batchedEvents, inputEventLog,
                 sent, player, tickLog, doomedDelivered, liveInPlayback, inputs,
                 lifetime, scheduler, phases, liveWhilePlaying>>

\* the requestAnimationFrame callback of the playback loop
PlaybackFrame ==
  /\ pc \in {"playing", "finished"}
  /\ rafPending > 0
  /\ request' = request
  /\ \E time \in clock..MaxTime, thrown \in Outcomes :
       PlaybackPass(TRUE, Scene, eventLog, startTime, time, NoSize, phases, thrown)

\* ---- sim.destroy()
Destroy ==
  /\ ~destroyed
  /\ pc # "finished"
  /\ inputs < MaxInputs
  /\ inputs' = inputs + 1
  /\ destroyed' = TRUE
  /\ destroyedAt' = pc
  /\ UNCHANGED <<config, popups, iframe, view, outbox, pc, showHomeScreen, screenIndex, currentScreen, active, frameCounter,
                 lastTime,
                 clock, displaySize, inputEventSize, eventLog, batchedEvents, inputEventLog,
                 sent, player, tickLog, doomedDelivered, liveInPlayback,
                 lifetime, rafPending, afterDestroy, loader, liveWhilePlaying>>

\* ---- a DOM input event arrives at the display
UserInput(e) ==
  /\ active
  /\ pc # "finished"
  /\ inputs < MaxInputs
  /\ inputs' = inputs + 1
  /\ IF options.batchEvents
       THEN /\ batchedEvents' = Append(batchedEvents, [ev |-> e, doomed |-> FALSE])
            /\ UNCHANGED <<showHomeScreen, screenIndex, currentScreen, view, eventLog,
                           liveInPlayback, liveWhilePlaying>>
       ELSE /\ LET scene == DispatchOne(Scene, e) IN
                 /\ showHomeScreen' = scene.showHomeScreen
                 /\ screenIndex' = scene.screenIndex
                 /\ currentScreen' = scene.currentScreen
                 /\ view' = scene.view
            /\ eventLog' = eventLog \o Logged(<<e>>)
            /\ liveInPlayback' = (liveInPlayback \/ options.playbackInputEventLog)
            /\ liveWhilePlaying' = (liveWhilePlaying \/ pc = "playing")
            /\ UNCHANGED batchedEvents
  /\ UNCHANGED <<config, popups, iframe, outbox, pc, active, frameCounter, lastTime, clock, displaySize,
                 inputEventSize, inputEventLog, sent, player, tickLog,
                 doomedDelivered, lifetime, scheduler, loader>>

\* ---- SimIFrameAPI 'setActive': sim.active = message.value
RECURSIVE Doom(_)
Doom(batch) ==
  IF batch = <<>> THEN <<>>
  ELSE <<[Head(batch) EXCEPT !.doomed = TRUE]>> \o Doom(Tail(batch))

SetActive(value) ==
  /\ active # value
  /\ pc # "finished"
  /\ active' = value
  /\ batchedEvents' = IF value THEN batchedEvents ELSE Doom(batchedEvents)
  /\ UNCHANGED <<config, popups, iframe, view, outbox, pc, showHomeScreen, screenIndex, currentScreen, frameCounter,
                 lastTime, clock,
                 displaySize, inputEventSize, eventLog, inputEventLog, sent, player,
                 tickLog, doomedDelivered, liveInPlayback, inputs, lifetime,
                 scheduler, loader, liveWhilePlaying>>

\* ---- sim.resize( width, height ), from the window's resize event
Resize(width, height) ==
  /\ inputs < MaxInputs
  /\ pc # "finished"
  /\ inputs' = inputs + 1
  /\ displaySize # [width |-> width, height |-> height]
  /\ displaySize' = [width |-> width, height |-> height]
  /\ eventLog' = Append(eventLog, SetSize(width, height))
  /\ UNCHANGED <<config, popups, iframe, view, outbox, pc, showHomeScreen, screenIndex, currentScreen, active, frameCounter,
                 lastTime,
                 clock, inputEventSize, batchedEvents, inputEventLog, sent, player,
                 tickLog, doomedDelivered, liveInPlayback, lifetime,
                 scheduler, loader, liveWhilePlaying>>

\* ---- a second page load that plays a trace back
\* the state the constructor builds, for the options `opts`, before start()
Reload(opts, trace, before) ==
  /\ run = 1
  /\ run' = 2
  /\ prev' = before
  /\ options' = opts
  /\ data' = trace
  /\ pc' = "loading"
  /\ showHomeScreen' = Launched(screens, opts, startup).showHomeScreen
  /\ screenIndex' = Launched(screens, opts, startup).screenIndex
  /\ currentScreen' = Launched(screens, opts, startup).currentScreen
  /\ outbox' = <<>>
  /\ active' = TRUE
  /\ frameCounter' = 0
  /\ lastTime' = NoTime
  /\ displaySize' = InitialSize
  /\ inputEventSize' = [width |-> Undefined, height |-> Undefined]
  /\ eventLog' = <<SetSize(InitialSize.width, InitialSize.height)>>
  /\ batchedEvents' = <<>>
  /\ inputEventLog' = <<>>
  /\ sent' = <<>>
  /\ index' = 0
  /\ startTime' = NoTime
  /\ report' = NoReport
  /\ tickLog' = <<>>
  /\ doomedDelivered' = FALSE
  /\ liveInPlayback' = FALSE
  /\ destroyed' = FALSE
  /\ rafPending' = 0
  /\ request' = "pending"
  /\ afterDestroy' = 0
  /\ destroyedAt' = "never"
  /\ phases' = <<"idle", "loading">>
  /\ liveWhilePlaying' = FALSE
  /\ view' = Launched(screens, opts, startup).view
  /\ barrierStack' = <<>>
  /\ topLayer' = <<>>
  /\ barrierVisible' = BarrierVisible(0)
  /\ modal' = {}
  /\ popupFailed' = {}
  /\ fired' = 0
  /\ stateListeners' = <<>>
  /\ targets' = <<>>
  /\ protocolVersion' = InitialProtocolVersion
  /\ posted' = <<>>
  /\ UNCHANGED <<startup, screens, clock, inputs, assertions>>

\* the recorded session is played back: the server serves the recorded frames
PlaybackRecording ==
  /\ pc = "live"
  /\ options.recordInputEventLog
  /\ Reload([options EXCEPT !.playbackInputEventLog = TRUE, !.recordInputEventLog = FALSE,
                            !.fuzzMouse = FALSE],
            getRecordedInputEventLogString(sent),
            [mode |-> "live", steps |-> Steps(tickLog), clean |-> TRUE, elapsedTime |-> NoTime])

\* the same trace is played back a second time
PlaybackAgain ==
  /\ pc = "finished"
  /\ Reload(options, data,
            [mode |-> "playback", steps |-> Steps(tickLog), clean |-> ~liveInPlayback,
             elapsedTime |-> report.elapsedTime])

\* ---- the export and the transmit functions, which the page calls at any time
\* everything of the sim but the history of these calls
sim == <<options, startup, screens, pc, showHomeScreen, screenIndex, currentScreen, active,
         frameCounter, lastTime, clock, displaySize, inputEventSize, eventLog, batchedEvents,
         inputEventLog, sent, data, index, startTime, report, destroyed, rafPending, request,
         view, barrierStack, topLayer, barrierVisible, assertions, stateListeners, targets,
         protocolVersion>>

history == <<tickLog, doomedDelivered, liveInPlayback, inputs, afterDestroy, destroyedAt,
             phases, liveWhilePlaying, run, prev, modal, popupFailed, fired, posted>>

Drained(log) == <<>>

\* what getRecordedInputEventLogString leaves of a log it reads
Kept(log) == log

TransmitsAlways(opts) == TRUE

\* the guard of submitEventLog and mailEventLog: they return at once unless
\* options.recordInputEventLog
Transmits(opts) == opts.recordInputEventLog

\* a call of `op`, which came to the export of the log
Call(op) ==
  [op |-> op, body |-> getRecordedInputEventLogString(inputEventLog), at |-> frameCounter]

Export ==
  /\ pc \in {"constructed", "live"}
  /\ Len(outbox) < MaxCalls
  /\ outbox' = Append(outbox, Call("export"))
  /\ inputEventLog' = Kept(inputEventLog)
  /\ eventLog' = Kept(eventLog)
  /\ UNCHANGED <<config, popups, iframe, view, pc, showHomeScreen, screenIndex, currentScreen, active, frameCounter,
                 lastTime, clock, displaySize, inputEventSize, batchedEvents, sent, player,
                 scheduler, request, tickLog, doomedDelivered, liveInPlayback, inputs, phases,
                 liveWhilePlaying, lifetime>>

\* submitEventLog (op = "post") and mailEventLog (op = "mail")
Transmit(op) ==
  /\ pc \in {"constructed", "live"}
  /\ Len(outbox) < MaxCalls
  /\ IF Transmits(options)
       THEN /\ outbox' = Append(outbox, Call(op))
            /\ inputEventLog' = Kept(inputEventLog)
            /\ eventLog' = Kept(eventLog)
       ELSE UNCHANGED <<outbox, inputEventLog, eventLog>>
  /\ UNCHANGED <<config, popups, iframe, view, pc, showHomeScreen, screenIndex, currentScreen, active, frameCounter,
                 lastTime, clock, displaySize, inputEventSize, batchedEvents, sent, player,
                 scheduler, request, tickLog, doomedDelivered, liveInPlayback, inputs, phases,
                 liveWhilePlaying, lifetime>>

submitEventLog == Transmit("post")

mailEventLog == Transmit("mail")

Next ==
  \/ Start
  \/ AnimationFrame
  \/ StartPlayback
  \/ OnLoad
  \/ LoadFails
  \/ PlaybackFrame
  \/ Destroy
  \/ \E e \in UserEvents(screens) : UserInput(e)
  \/ \E value \in BOOLEAN : SetActive(value)
  \/ \E w \in Dims, h \in Dims : Resize(w, h)
  \/ PlaybackRecording
  \/ PlaybackAgain

Spec == Init /\ [][Next]_vars

\* ---- a page load with playbackInputEventLog, on a browser that delivers every
\* animation-frame callback it holds
PlayerInit == Init /\ options.playbackInputEventLog

PlayerNext ==
  \/ StartPlayback
  \/ OnLoad
  \/ LoadFails
  \/ PlaybackFrame
  \/ Destroy
  \/ \E e \in UserEvents(screens) : UserInput(e)
  \/ \E value \in BOOLEAN : SetActive(value)
  \/ \E w \in Dims, h \in Dims : Resize(w, h)

FairSpec == PlayerInit /\ [][PlayerNext]_vars /\ WF_vars(PlaybackFrame)

\* ---- a live page load whose page calls the export and the transmit functions
LogInit ==
  /\ Init
  /\ ~options.playbackInputEventLog
  /\ ~options.fuzzMouse

LogNext ==
  \/ Start
  \/ AnimationFrame
  \/ \E e \in UserEvents(screens) : UserInput(e)
  \/ \E w \in Dims, h \in Dims : Resize(w, h)
  \/ Export
  \/ submitEventLog
  \/ mailEventLog

LogSpec == LogInit /\ [][LogNext]_vars

\* ---- a live page load, for everything the constructor can be given
Startups ==
  [screenIndex : 0..MaxScreens, screenDisplayStrategy : Strategies,
   queryShowHomeScreen : {Absent, "true", "false"}]

SetupInit ==
  /\ startup \in Startups
  /\ Constructed
  /\ ~assertions
  /\ ~options.playbackInputEventLog
  /\ ~options.recordInputEventLog
  /\ ~options.fuzzMouse

SetupNext ==
  \/ Start
  \/ AnimationFrame
  \/ \E e \in UserEvents(screens) : UserInput(e)
  \/ \E value \in BOOLEAN : SetActive(value)

SetupSpec == SetupInit /\ [][SetupNext]_vars

\* ---- assignments to the two properties of the screen selection, as the home screen
\* and the navigation bar make them: sim.screenIndex = i, sim.showHomeScreen = value
SetScreenIndex(i) ==
  /\ pc \in {"constructed", "live"}
  /\ i # screenIndex
  /\ LET scene == Changed(Scene, [Scene EXCEPT !.screenIndex = i]) IN
       /\ screenIndex' = scene.screenIndex
       /\ currentScreen' = scene.currentScreen
       /\ view' = scene.view
  /\ UNCHANGED <<showHomeScreen, config, running, popups, iframe>>

\* with a single screen sim.homeScreen is null, and nothing assigns showHomeScreen
SetShowHomeScreen(value) ==
  /\ pc \in {"constructed", "live"}
  /\ screens > 1
  /\ value # showHomeScreen
  /\ LET scene == Changed(Scene, [Scene EXCEPT !.showHomeScreen = value]) IN
       /\ showHomeScreen' = scene.showHomeScreen
       /\ currentScreen' = scene.currentScreen
       /\ view' = scene.view
  /\ UNCHANGED <<screenIndex, config, running, popups, iframe>>

\* a live page load under either display strategy, from a screenIndex in range
ViewInit ==
  /\ startup \in [screenIndex : 0..(MaxScreens - 1),
                   screenDisplayStrategy : {"setVisible", "setChildren"},
                   queryShowHomeScreen : {Absent}]
  /\ Constructed
  /\ ~assertions
  /\ ~options.playbackInputEventLog
  /\ ~options.recordInputEventLog
  /\ ~options.fuzzMouse

ViewNext ==
  \/ Start
  \/ AnimationFrame
  \/ \E e \in UserEvents(screens) : UserInput(e)
  \/ \E i \in 0..(screens - 1) : SetScreenIndex(i)
  \/ \E value \in BOOLEAN : SetShowHomeScreen(value)

ViewSpec == ViewInit /\ [][ViewNext]_vars

\* ---- popups
Popups == {"phetMenu", "dialog"}

\* ObservableArray.remove( node ) and removeChild( node ) of a node that is there
Without(nodes, node) == IF IsChild(nodes, node) THEN RemoveChild(nodes, node) ELSE nodes

\* isPoppedUp( node ): this.barrierStack.contains( node )
isPoppedUp(node) == IsChild(barrierStack, node)

\* the assertion of hidePopup, where assertions are enabled
HideAsserts(node) == assertions /\ ~IsChild(barrierStack, node)

showPopup(node, isModal) ==
  /\ pc \in {"constructed", "live"}
  /\ ~IsChild(topLayer, node)
  /\ barrierStack' = IF isModal THEN Append(barrierStack, node) ELSE barrierStack
  /\ topLayer' = Append(topLayer, node)
  /\ barrierVisible' = BarrierVisible(Len(barrierStack'))
  /\ modal' = IF isModal THEN modal \cup {node} ELSE modal
  /\ UNCHANGED <<assertions, popupFailed, fired, config, selection, running, iframe>>

\* the body of hidePopup( node, isModal )
Hides(node, isModal) ==
  IF HideAsserts(node)
    THEN /\ popupFailed' = popupFailed \cup {node}
         /\ UNCHANGED <<barrierStack, topLayer, barrierVisible, modal>>
    ELSE /\ barrierStack' = IF isModal THEN Without(barrierStack, node) ELSE barrierStack
         /\ topLayer' = Without(topLayer, node)
         /\ barrierVisible' = BarrierVisible(Len(barrierStack'))
         /\ modal' = modal \ {node}
         /\ UNCHANGED popupFailed

\* hidePopup for a popup on display, with the isModal it was shown with
hidePopup(node, isModal) ==
  /\ pc \in {"constructed", "live"}
  /\ IsChild(topLayer, node)
  /\ isModal = (node \in modal)
  /\ Hides(node, isModal)
  /\ UNCHANGED <<assertions, fired, config, selection, running, iframe>>

\* the barrier's ButtonListener fires: hide() of the top of the stack, which (as
\* PhetMenu.hide does) calls sim.hidePopup( this, true ) if the node isPoppedUp
FireBarrier ==
  /\ pc \in {"constructed", "live"}
  /\ barrierVisible
  /\ barrierStack # <<>>
  /\ fired < MaxFires
  /\ fired' = fired + 1
  /\ isPoppedUp(barrierStack[Len(barrierStack)])
  /\ Hides(barrierStack[Len(barrierStack)], TRUE)
  /\ UNCHANGED <<assertions, config, selection, running, iframe>>

\* a live page load whose code shows and hides popups, in either build
PopupInit ==
  /\ startup = DefaultStartup
  /\ Constructed
  /\ ~options.playbackInputEventLog
  /\ ~options.recordInputEventLog
  /\ ~options.fuzzMouse
  /\ ~options.batchEvents

PopupNext ==
  \/ Start
  \/ AnimationFrame
  \/ \E node \in Popups, isModal \in BOOLEAN : showPopup(node, isModal)
  \/ \E node \in Popups, isModal \in BOOLEAN : hidePopup(node, isModal)
  \/ FireBarrier

PopupSpec == PopupInit /\ [][PopupNext]_vars

\* ---- SimIFrameAPI: the 'message' listener and what arch emits
Parents == {"parentA", "parentB"}

\* command 'connect': send( event.source, {command: 'connected'} )
Connect(source) ==
  /\ pc # "failed"
  /\ Len(posted) < MaxPosts
  /\ posted' = posted \o SendAll(protocolVersion, <<source>>, [command |-> "connected"])
  /\ protocolVersion' = Shared(protocolVersion, <<source>>, [command |-> "connected"])
  /\ UNCHANGED <<listeners, config, selection, running, popups>>

\* command 'addSimStateListener': stateListeners.push( event.source )
AddSimStateListener(source) ==
  /\ pc # "failed"
  /\ Len(stateListeners) + Len(targets) < MaxListeners
  /\ stateListeners' = Append(stateListeners, source)
  /\ UNCHANGED <<targets, protocolVersion, posted, config, selection, running, popups>>

\* command 'addSimEventListener', window.phetEvents being there
AddSimEventListener(source) ==
  /\ pc # "failed"
  /\ Len(stateListeners) + Len(targets) < MaxListeners
  /\ targets' = Append(targets, source)
  /\ UNCHANGED <<stateListeners, protocolVersion, posted, config, selection, running, popups>>

\* arch emits an event: each of the targets sends {command: 'addEvent', event: message}
PhetEvent ==
  /\ pc # "failed"
  /\ targets # <<>>
  /\ Len(posted) < MaxPosts
  /\ posted' = posted \o SendAll(protocolVersion, targets,
                                 [command |-> "addEvent", event |-> "event"])
  /\ protocolVersion' = Shared(protocolVersion, targets,
                               [command |-> "addEvent", event |-> "event"])
  /\ UNCHANGED <<listeners, config, selection, running, popups>>

\* a live page load with the SimIFrameAPI enabled
IFrameInit ==
  /\ Init
  /\ ~options.showHomeScreen
  /\ ~options.playbackInputEventLog
  /\ ~options.recordInputEventLog
  /\ ~options.fuzzMouse
  /\ ~options.batchEvents

IFrameNext ==
  \/ Start
  \/ AnimationFrame
  \/ \E value \in BOOLEAN : SetActive(value)
  \/ \E source \in Parents : Connect(source)
  \/ \E source \in Parents : AddSimStateListener(source)
  \/ \E source \in Parents : AddSimEventListener(source)
  \/ PhetEvent

IFrameSpec == IFrameInit /\ [][IFrameNext]_vars

\* ======================================================================
\* Properties
\* ======================================================================
Live == pc = "live"
Playback == pc \in {"playing", "finished"}
DtPerSecond == 1000 * SixtiethsPerMilli
ModelSteps(steps) == [i \in 1..Len(steps) |-> steps[i].modelStep]
Carries(rec) == rec.width # Undefined \/ rec.height # Undefined

\* C1: playback gives model.step the recorded dt of the frame and injects the frame's
\* recorded events, whatever Date.now() returns; replaying the same trace a second time
\* from the same initial state repeats exactly the same sequence of (dt, events) pairs.
C1_PlaybackDeterminism ==
  /\ Playback =>
       \A i \in 1..Len(tickLog) :
         /\ tickLog[i].fired = data[i].events
         /\ tickLog[i].modelStep \in {NoStep, data[i].dt}
  /\ (pc = "finished" /\ run = 2 /\ prev.mode = "playback" /\ prev.clean /\ ~liveInPlayback)
       => Steps(tickLog) = prev.steps

C1_Witness ==
  /\ pc = "finished" /\ run = 2 /\ prev.mode = "playback" /\ prev.clean /\ ~liveInPlayback
  /\ report.elapsedTime # prev.elapsedTime
  /\ Len(tickLog) = MaxFrames
  /\ \E i \in 1..Len(tickLog) : tickLog[i].modelStep = NominalElapsed

\* C2: with recording enabled, after n live ticks sim.inputEventLog holds n records and
\* getRecordedInputEventLogString() serializes those n frames.
C2_RecorderAccumulates ==
  (Live /\ options.recordInputEventLog) =>
    /\ Len(inputEventLog) = frameCounter
    /\ Len(getRecordedInputEventLogString(inputEventLog)) = frameCounter

\* C3: an input event that was buffered when the sim was set inactive is never delivered
\* on a later tick.
C3_InactiveInputDiscard == ~doomedDelivered

\* C4: a tick executed while sim.active is false invokes neither model.step nor
\* view.step, in the live loop and in the playback loop.
C4_PauseContract ==
  \A i \in 1..Len(tickLog) :
    ~tickLog[i].active => (tickLog[i].modelStep = NoStep /\ ~tickLog[i].viewStep)

\* C5: playing back the frames of a recorded live session gives model.step the same dt
\* on the same frames as the live session did, and steps no frame the live loop skipped.
C5_RecordReplayEquivalence ==
  (pc = "finished" /\ run = 2 /\ prev.mode = "live" /\ ~liveInPlayback)
    => ModelSteps(Steps(tickLog)) = ModelSteps(prev.steps)

\* C6: a live tick with the sim active, a screen showing and dt = 0 does not invoke
\* model.step, but does invoke view.step and (when view.step returns) updateDisplay.
C6_ZeroDeltaGuard ==
  \A i \in 1..Len(tickLog) :
    (tickLog[i].mode = "live" /\ tickLog[i].active /\ ~tickLog[i].home /\ tickLog[i].dt = 0)
      => /\ tickLog[i].modelStep = NoStep
         /\ tickLog[i].viewStep
         /\ tickLog[i].thrown = "none" => tickLog[i].display

C6_Witness ==
  \E i \in 1..Len(tickLog) :
    /\ tickLog[i].mode = "live" /\ tickLog[i].active /\ ~tickLog[i].home
    /\ tickLog[i].dt = 0 /\ tickLog[i].display

\* C7: playback of an N-frame trace to completion, the home screen never showing,
\* invokes model.step N minus (the number of frames whose dt is 0) times.
C7_PlaybackStepCount ==
  (pc = "finished" /\ \A i \in 1..Len(tickLog) : ~tickLog[i].home)
    => Cardinality({i \in 1..Len(tickLog) : tickLog[i].modelStep # NoStep})
         = Len(data) - Cardinality({i \in 1..Len(data) : data[i].dt = 0})

\* C8: the first live tick uses dt = 1/60 s; every later live tick uses
\* (now - time of the previous tick) / 1000 s, the previous tick being the one just
\* before it whether it ran active, inactive or on the home screen.
C8_DeltaTime ==
  \A i \in 1..Len(tickLog) :
    tickLog[i].mode = "live" =>
      IF i = 1 THEN tickLog[i].dt * 60 = DtPerSecond
      ELSE tickLog[i].dt * 1000 = (tickLog[i].time - tickLog[i - 1].time) * DtPerSecond

C8_Witness ==
  \E i \in 3..Len(tickLog) :
    /\ tickLog[i].mode = "live"
    /\ ~tickLog[i - 1].active \/ tickLog[i - 1].home
    /\ tickLog[i - 1].time > tickLog[i - 2].time
    /\ tickLog[i].time = tickLog[i - 1].time

\* the size carried by the most recent of the first n records that carries one
RECURSIVE LastCarried(_, _)
LastCarried(records, n) ==
  IF n = 0 THEN [width |-> Undefined, height |-> Undefined]
  ELSE IF Carries(records[n]) THEN [width |-> records[n].width, height |-> records[n].height]
  ELSE LastCarried(records, n - 1)

\* the ticks that ran to their end
Completed(ticks) == {i \in 1..Len(ticks) : ticks[i].thrown = "none"}

\* the tick a frame record was made on: the live tick with the record's id
TickOf(rec) == tickLog[rec.id]

\* C9: a frame record carries width/height exactly when it is the first record or the
\* display size at its tick differs from the size carried by the most recent earlier
\* record that carried one.
C9_ViewportDeltaEncoding ==
  (Live /\ options.recordInputEventLog) =>
    /\ Len(sent) = Cardinality(Completed(tickLog))
    /\ \A i \in 1..Len(sent) :
         /\ sent[i].id \in Completed(tickLog)
         /\ Carries(sent[i]) <=> (i = 1 \/ TickOf(sent[i]).size # LastCarried(sent, i - 1))
         /\ Carries(sent[i]) => TickOf(sent[i]).size = [width |-> sent[i].width,
                                                        height |-> sent[i].height]

C9_Witness ==
  /\ Live /\ options.recordInputEventLog /\ Len(sent) = 3
  /\ Carries(sent[1]) /\ Carries(sent[2]) /\ ~Carries(sent[3])
  /\ tickLog[1].size # tickLog[2].size

\* the width and the height a reader of the wire format finds for frame n, each from
\* the most recent frame up to n that has the key
RECURSIVE EffectiveWidth(_, _)
EffectiveWidth(frames, n) ==
  IF n = 0 THEN Undefined
  ELSE IF frames[n].width # Undefined THEN frames[n].width
  ELSE EffectiveWidth(frames, n - 1)

RECURSIVE EffectiveHeight(_, _)
EffectiveHeight(frames, n) ==
  IF n = 0 THEN Undefined
  ELSE IF frames[n].height # Undefined THEN frames[n].height
  ELSE EffectiveHeight(frames, n - 1)

\* C10: in the export of the recorded frames, the effective size of every frame (from
\* the most recent frame with width/height) is the display size at its capture, and a
\* frame has width/height exactly when its record carries them, 0 included.
C10_ExportRoundTrip ==
  (Live /\ options.recordInputEventLog) =>
    LET frames == getRecordedInputEventLogString(sent) IN
    \A i \in 1..Len(sent) :
      /\ EffectiveWidth(frames, i) = TickOf(sent[i]).size.width
      /\ EffectiveHeight(frames, i) = TickOf(sent[i]).size.height
      /\ (frames[i].width # Undefined) <=> (sent[i].width # Undefined)
      /\ (frames[i].height # Undefined) <=> (sent[i].height # Undefined)

\* C11: sim.frameCounter counts the animation ticks of the page load, live and playback
\* alike: after k ticks of either loop frameCounter = k.
C11_TickCounter == frameCounter = Len(tickLog)

\* C12 as stated: the ids of consecutive frame records differ by exactly 1, also when a
\* tick between them was ended by an exception of a model or view step.
C12_ContiguousIds ==
  (Live /\ options.recordInputEventLog) =>
    \A i \in 1..(Len(sent) - 1) : sent[i + 1].id = sent[i].id + 1

\* the ticks strictly between the ticks with ids a and b that an exception ended
AbortedBetween(a, b) == {j \in (a + 1)..(b - 1) : tickLog[j].thrown # "none"}

\* C12: the id of a frame record is the ordinal of its tick among all live ticks; the ids
\* of consecutive records are strictly increasing and differ by 1 plus the number of
\* ticks between them that an exception ended (each of those consumed an id and sent no
\* record), so by exactly 1 when no tick between them was aborted.
C12_IdsCountTicks ==
  (Live /\ options.recordInputEventLog) =>
    /\ \A i \in 1..Len(sent) :
         /\ sent[i].id \in Completed(tickLog)
         /\ TickOf(sent[i]).id = sent[i].id
    /\ \A i \in 1..(Len(sent) - 1) :
         /\ sent[i + 1].id > sent[i].id
         /\ sent[i + 1].id - sent[i].id
              = 1 + Cardinality(AbortedBetween(sent[i].id, sent[i + 1].id))

C12_Witness ==
  /\ Live /\ options.recordInputEventLog
  /\ Len(sent) = 2
  /\ sent[2].id = sent[1].id + 2
  /\ tickLog[2].thrown = "model"

PlayerPath == <<"idle", "loading", "playing", "finished">>

PhaseOf(position) == IF position = "constructed" THEN "idle" ELSE position

\* C13: a playback run goes Idle -> Loading -> Playing -> Finished, entering each state
\* once; at Finished no callback is scheduled, the results were written once and no frame
\* beyond the trace was stepped.
C13_PlayerStates ==
  options.playbackInputEventLog =>
    /\ \E n \in 1..Len(PlayerPath) : phases = SubSeq(PlayerPath, 1, n)
    /\ phases[Len(phases)] = PhaseOf(pc)
    /\ rafPending <= 1
    /\ pc = "finished" => (rafPending = 0 /\ report # NoReport /\ Len(tickLog) = Len(data))
    /\ pc # "finished" => report = NoReport

C13_Witness ==
  /\ pc = "finished" /\ phases = PlayerPath /\ rafPending = 0
  /\ Len(data) = MaxFrames
  /\ \A i \in 1..Len(tickLog) : tickLog[i].modelStep # NoStep

Min(a, b) == IF a < b THEN a ELSE b

\* C14: with every scheduled animation-frame callback delivered, a playback that is
\* playing eventually finishes; the k-th playback tick consumes frame k of the trace and
\* no other, one frame per pass, and at the end every frame was consumed.
C14_PlaybackProgress ==
  /\ [](Playback =>
          /\ Len(tickLog) = Min(index, Len(data))
          /\ \A i \in 1..Len(tickLog) :
               tickLog[i].id = i /\ tickLog[i].fired = data[i].events
          /\ pc = "finished" => index = Len(data) + 1)
  /\ (pc = "playing") ~> (pc = "finished")

C14_Witness ==
  /\ pc = "finished" /\ index = MaxFrames + 1
  /\ tickLog[1].id = 1 /\ tickLog[MaxFrames].id = MaxFrames
  /\ data[1] # data[MaxFrames]

\* C15: when the request for the trace fails, the sim is in an error state.
C15_FetchFailureSurfaced == request = "failed" => pc = "error"

\* C16: a playback tick whose frame carries width/height applies that size, before the
\* frame's events are replayed, whatever the index of the frame.
C16_ViewportReplay ==
  Playback =>
    \A i \in 1..Len(tickLog) :
      Carries(data[i]) =>
        tickLog[i].applied = [width |-> data[i].width, height |-> data[i].height]

\* C17: while the player is playing, no live input event reaches the scene.
C17_LiveInputSuppressed == ~liveWhilePlaying

\* C18: at Finished the reported frames per second is
\* traceLength / (elapsedMillis / 1000), elapsedMillis being the time from the start of
\* the playback to the finishing callback.
C18_ReportedFps ==
  pc = "finished" =>
    /\ report.elapsedTime = clock - startTime
    /\ report.fps = [num |-> Len(data) * 1000, den |-> report.elapsedTime]

C18_Witness ==
  /\ pc = "finished" /\ Len(data) = MaxFrames
  /\ report.elapsedTime > 0
  /\ report.fps.num = MaxFrames * 1000

\* C19: once destroy() has set the flag no tick of the live loop schedules another; at
\* most one live tick begins after destroy(), and after it no callback is pending.
C19_LiveTeardown ==
  ~options.playbackInputEventLog =>
    /\ rafPending <= 1
    /\ destroyed => /\ afterDestroy <= 1
                    /\ afterDestroy = 1 => rafPending = 0
                    /\ destroyedAt = "constructed" /\ pc = "constructed" => rafPending = 0

C19_Witness ==
  /\ ~options.playbackInputEventLog
  /\ destroyedAt = "live" /\ afterDestroy = 1 /\ rafPending = 0
  /\ frameCounter >= 2

\* C20: after destroy() is called during playback, at most one more pass of the playback
\* loop runs, and it schedules no further pass.
C20_PlaybackTeardown ==
  destroyedAt = "playing" =>
    /\ afterDestroy <= 1
    /\ afterDestroy = 1 => rafPending = 0

\* C21: at most one animation-frame callback is pending, in the live loop and in the
\* playback loop, and none before the sim is started.
C21_SingleOutstandingTick ==
  /\ rafPending \in {0, 1}
  /\ pc \in {"constructed", "loading", "failed"} => rafPending = 0

C21_Witness ==
  /\ pc = "playing" /\ rafPending = 1 /\ Len(tickLog) = MaxFrames

\* C22: a started sim runs the live loop or the playback loop, never both: with playback
\* configured no live tick runs and no frame record is made, recording requested or
\* not; without playback no playback tick runs.
C22_ModeExclusivity ==
  /\ \A i \in 1..Len(tickLog) :
       tickLog[i].mode = (IF options.playbackInputEventLog THEN "playback" ELSE "live")
  /\ options.playbackInputEventLog =>
       /\ pc # "live"
       /\ sent = <<>> /\ inputEventLog = <<>>
  /\ ~options.playbackInputEventLog => pc \in {"constructed", "live", "failed"}

C22_Witness ==
  /\ options.playbackInputEventLog /\ options.recordInputEventLog
  /\ run = 1 /\ pc = "finished" /\ Len(tickLog) = MaxFrames

\* C23 as stated: a tick in which a step throws is the last tick, and it leaves no
\* callback scheduled.
C23_BrokenTickStopsLoop ==
  \A i \in 1..Len(tickLog) :
    tickLog[i].thrown # "none" => (i = Len(tickLog) /\ rafPending = 0)

\* C23: a step that throws does not stop the loop: both loops call
\* requestAnimationFrame before they step, so after a tick that an exception ended the
\* next callback is scheduled exactly as after a tick that ran to its end (always in
\* playback; in the live loop unless destroy() came before the tick).
C23_BrokenTickRearms ==
  (Len(tickLog) > 0 /\ tickLog[Len(tickLog)].thrown # "none" /\ pc # "finished") =>
    rafPending = (IF tickLog[Len(tickLog)].mode = "live" /\ afterDestroy > 0 THEN 0 ELSE 1)

C23_Witness ==
  /\ Len(tickLog) = MaxFrames
  /\ tickLog[1].mode = "playback" /\ tickLog[1].thrown = "model"
  /\ tickLog[MaxFrames].thrown = "none" /\ tickLog[MaxFrames].modelStep # NoStep

\* C24: currentScreen is null when showHomeScreen is true and screens[screenIndex]
\* otherwise, in every state.
C24_DerivedCurrentScreen ==
  /\ showHomeScreen => currentScreen = NoScreen
  /\ ~showHomeScreen => (currentScreen = screenIndex /\ screenIndex \in 0..(screens - 1))

C24_Witness ==
  /\ options.showHomeScreen /\ ~showHomeScreen /\ currentScreen = MaxScreens - 1
  /\ Len(tickLog) > 0

C26_ScreenBounds ==
  pc # "failed" => screenIndex \in 0..(screens - 1)

\* C27: when the showHomeScreen query parameter is supplied to a sim with several
\* screens, the sim starts with showHomeScreen as the query value says, whatever
\* options.showHomeScreen says.
C27_QueryPrecedence ==
  (pc = "constructed" /\ inputs = 0 /\ screens > 1
     /\ startup.queryShowHomeScreen # Absent)
    => showHomeScreen = (startup.queryShowHomeScreen = "true")

\* C28: a Sim given a screenDisplayStrategy other than 'setVisible' and 'setChildren'
\* is never constructed: it is never started and no tick runs.
C28_InvalidStrategy ==
  startup.screenDisplayStrategy \notin {"setVisible", "setChildren"} =>
    /\ pc = "failed"
    /\ tickLog = <<>> /\ frameCounter = 0 /\ rafPending = 0

C28_Witness ==
  /\ startup.screenDisplayStrategy = "other" /\ pc = "failed"
  /\ screens = MaxScreens /\ startup.screenIndex = 0

\* C29: a call of getRecordedInputEventLogString() changes nothing of the sim, and two
\* consecutive calls with no tick between them return the same string.
C29_ExportPure ==
  /\ [](\A i \in 1..(Len(outbox) - 1) :
          (outbox[i].op = "export" /\ outbox[i + 1].op = "export"
             /\ outbox[i].at = outbox[i + 1].at)
            => outbox[i].body = outbox[i + 1].body)
  /\ [][(Len(outbox') > Len(outbox) /\ outbox'[Len(outbox')].op = "export")
          => sim' = sim]_vars

C29_Witness ==
  /\ Len(outbox) = MaxCalls /\ options.recordInputEventLog
  /\ \A i \in 1..Len(outbox) : outbox[i].op = "export" /\ outbox[i].at = frameCounter
  /\ frameCounter > 0 /\ eventLog # <<>>

\* C30: submitEventLog() and mailEventLog() send nothing and change nothing when
\* recording is not enabled; when it is enabled they send the current export, the export
\* of an empty trace included, and change nothing of the sim.
C30_TransmitGating ==
  /\ [](~options.recordInputEventLog =>
          \A i \in 1..Len(outbox) : outbox[i].op = "export")
  /\ [](\A i \in 1..Len(outbox) :
          outbox[i].op \in {"post", "mail"} =>
            outbox[i].body = getRecordedInputEventLogString(inputEventLog))
  /\ [][(Len(outbox') > Len(outbox) /\ outbox'[Len(outbox')].op \in {"post", "mail"})
          => sim' = sim]_vars

C30_Witness ==
  /\ options.recordInputEventLog /\ Len(outbox) = MaxCalls
  /\ outbox[1].op = "post" /\ outbox[MaxCalls].op = "mail"
  /\ outbox[1].body = <<>> /\ outbox[1].at > 0

\* C31: Timer.step and TWEEN.update run on a tick only if sim.active is true at that
\* tick, in the live loop and in the playback loop.
C31_TimerTweenGating ==
  \A i \in 1..Len(tickLog) :
    (tickLog[i].timerStep \/ tickLog[i].tweenUpdate) => tickLog[i].active

\* the place of a step in the order the live loop is to keep
Rank(step) ==
  CASE step = "frameStarted" -> 0
    [] step = "frameCounter" -> 1
    [] step = "requestAnimationFrame" -> 2
    [] step \in {"fuzzMouseEvents", "fireBatchedEvents", "clearBatchedEvents"} -> 3
    [] step = "dt" -> 4
    [] step = "model.step" -> 5
    [] step = "view.step" -> 6
    [] step = "Timer.step" -> 7
    [] step = "TWEEN.update" -> 8
    [] step = "record" -> 9
    [] step = "updateDisplay" -> 10
    [] step = "frameCompleted" -> 11

Occurrences(order, step) == Cardinality({k \in 1..Len(order) : order[k] = step})

\* C34: in every live tick that completes the steps come in the order: 'frameStarted',
\* the counter increment, input delivery (active) or discard (inactive), the dt, model.step,
\* view.step, Timer, TWEEN, the frame record (when recording), one updateDisplay,
\* 'frameCompleted'.
C34_LiveTickOrder ==
  \A i \in 1..Len(tickLog) :
    (tickLog[i].mode = "live" /\ tickLog[i].thrown = "none") =>
      LET order == tickLog[i].order IN
      /\ \A k \in 1..(Len(order) - 1) : Rank(order[k]) < Rank(order[k + 1])
      /\ order[1] = "frameStarted" /\ order[2] = "frameCounter"
      /\ order[Len(order)] = "frameCompleted"
      /\ Occurrences(order, "dt") = 1
      /\ Occurrences(order, "updateDisplay") = 1
      /\ Occurrences(order, "record") = (IF options.recordInputEventLog THEN 1 ELSE 0)
      /\ Occurrences(order, "Timer.step") = (IF tickLog[i].active THEN 1 ELSE 0)
      /\ Occurrences(order, "TWEEN.update") = (IF tickLog[i].active THEN 1 ELSE 0)
      /\ (~options.fuzzMouse /\ options.batchEvents) =>
            /\ Occurrences(order, "fireBatchedEvents") = (IF tickLog[i].active THEN 1 ELSE 0)
            /\ Occurrences(order, "clearBatchedEvents") = (IF tickLog[i].active THEN 0 ELSE 1)
      /\ Occurrences(order, "model.step") = (IF tickLog[i].modelStep # NoStep THEN 1 ELSE 0)
      /\ Occurrences(order, "view.step") = (IF tickLog[i].viewStep THEN 1 ELSE 0)

C34_Witness ==
  \E i \in 2..Len(tickLog) :
    /\ tickLog[i].mode = "live" /\ tickLog[i].thrown = "none"
    /\ Len(tickLog[i].order) = 12
    /\ tickLog[i - 1].thrown = "none" /\ ~tickLog[i - 1].active
    /\ Occurrences(tickLog[i - 1].order, "clearBatchedEvents") = 1

IsPrefix(s, t) == Len(s) <= Len(t) /\ SubSeq(t, 1, Len(s)) = s

\* C35: while recording, every live tick that completes produces one frame record that
\* holds, in the order logged, every event logged since the previous record, after which
\* the event log is empty; without a record no logged event is lost, and the records
\* already produced never change.
C35_EventPartition ==
  [][(run' = run /\ options.recordInputEventLog /\ ~options.playbackInputEventLog) =>
       IF Len(sent') > Len(sent)
         THEN /\ Len(sent') = Len(sent) + 1
              /\ SubSeq(sent', 1, Len(sent)) = sent
              /\ IsPrefix(eventLog, sent'[Len(sent')].events)
              /\ eventLog' = <<>>
         ELSE /\ sent' = sent
              /\ IsPrefix(eventLog, eventLog')
              /\ Len(tickLog') > Len(tickLog) => tickLog'[Len(tickLog')].thrown # "none"]_vars

C35_Witness ==
  /\ Len(sent) = 2
  /\ Len(sent[1].events) = 2 /\ sent[2].events = <<>>
  /\ eventLog = <<>>

\* C32: a node shown with showPopup( node, isModal ), modal or not, is removed by
\* hidePopup( node, isModal ) without an assertion failure, and isPoppedUp( node ) is
\* true exactly while the node is on display.
C32_PopupShowHide ==
  /\ popupFailed = {}
  /\ \A node \in Popups : isPoppedUp(node) <=> IsChild(topLayer, node)

\* the 'addState' messages posted to a source for the state of one tick
AddStates(source, counter) ==
  {k \in 1..Len(posted) :
     /\ posted[k].target = source
     /\ posted[k].message.command = "addState"
     /\ posted[k].message.state = State(counter)}

\* C33: a parent receives one 'addState' message for a frame completed while the sim is
\* active, however often it registered, and none for a tick that ran inactive or did
\* not complete.
C33_StateStreaming ==
  \A source \in Parents : \A i \in 1..Len(tickLog) :
    /\ Cardinality(AddStates(source, tickLog[i].id)) <= 1
    /\ (~tickLog[i].active \/ tickLog[i].thrown # "none")
         => AddStates(source, tickLog[i].id) = {}

\* C36: for a multi-screen sim under 'setVisible' and under 'setChildren' alike, after any
\* valid changes of screenIndex and showHomeScreen, what is on display is the home screen
\* view alone when showHomeScreen, and otherwise the view of screens[ screenIndex ] with
\* the navigation bar and no other screen's view.
C36_StrategyEquivalence ==
  (pc # "failed" /\ screens > 1 /\ startup.screenIndex < screens) =>
    /\ Displayed(view) = (IF showHomeScreen THEN {HomeView}
                          ELSE {ScreenView(screenIndex), NavigationBar})
    /\ \A node \in Displayed(view) :
         Cardinality({k \in 1..Len(view.rootNode) : view.rootNode[k] = node}) = 1

C36_Witness ==
  /\ startup.screenDisplayStrategy = "setChildren" /\ screens = MaxScreens
  /\ options.showHomeScreen /\ ~showHomeScreen
  /\ screenIndex # startup.screenIndex
  /\ view.rootNode = <<ScreenView(screenIndex), NavigationBar>>
  /\ frameCounter > 1

\* C37: the barrier rectangle is visible exactly when the barrier stack is not empty; a
\* fire of the barrier hides the most recently pushed modal popup and nothing else; when
\* every modal popup shown has been hidden the stack is empty and the barrier hidden.
C37_ModalBarrier ==
  /\ [](barrierVisible <=> barrierStack # <<>>)
  /\ [](modal = {} => (barrierStack = <<>> /\ ~barrierVisible))
  /\ [][fired' # fired =>
          /\ barrierStack' = SubSeq(barrierStack, 1, Len(barrierStack) - 1)
          /\ topLayer' = Without(topLayer, barrierStack[Len(barrierStack)])
          /\ modal' = modal \ {barrierStack[Len(barrierStack)]}]_vars

C37_Witness ==
  /\ fired = 1 /\ Len(barrierStack) = 1 /\ Len(topLayer) = 2
  /\ barrierVisible /\ Cardinality(modal) = 1

\* the fields of an outgoing message of a command
Fields(command) ==
  {"protocolVersion", "command"}
    \cup (IF command = "addState" THEN {"state"} ELSE {})
    \cup (IF command = "addEvent" THEN {"event"} ELSE {})

\* C38: every message the SimIFrameAPI posts holds the protocolVersion and the fields of
\* that message only: no field of an earlier message is in a later one.
C38_MessageIsolation ==
  \A k \in 1..Len(posted) :
    DOMAIN posted[k].message = Fields(posted[k].message.command)

\* C39: at Finished the reported number of frames is the trace length N, and the
\* reported average time per frame is elapsedMillis / N.
C39_FrameAccounting ==
  pc = "finished" =>
    /\ report.frames = Len(data)
    /\ report.average = [num |-> report.elapsedTime, den |-> Len(data)]

====
